---------------------------- MODULE Spec2Model ----------------------------
(***************************************************************************)
(* Model of cn-population-land-growth-optimizer.py: the catalogs, the four *)
(* pure formulas (tech_happiness_bonus, calculate_population,              *)
(* calculate_land_growth, fitness_function) and the enumeration loop of    *)
(* optimize_settings.                                                      *)
(*                                                                         *)
(* Numbers.  The program computes with Python numbers.  The model computes *)
(* the same expressions exactly, as integer numerators over fixed          *)
(* denominators:                                                           *)
(*    tech                      in units of 1/TechDen   (halves)           *)
(*    weight_pop, weight_land   in units of 1/WeightDen (tenths)           *)
(*    tech_happiness_bonus      in units of 1/BonusDen  (hundredths)       *)
(*    calculate_population      in units of 1/PopDen                       *)
(*    calculate_land_growth     in units of 1/LandDen                      *)
(*    fitness_function          in units of 1/ScoreDen                     *)
(*    round(x, 2)               in hundredths                              *)
(* infra, base_land, base_pop and happiness_factor are integers.  The      *)
(* numerators exceed TLC's 32-bit integers, so they are held as signed     *)
(* multi-limb integers (records [neg, mag], mag a little-endian sequence   *)
(* of limbs below BASE, canonical: no high zero limb, zero is not          *)
(* negative).  Floating-point rounding error is not modelled: two scores   *)
(* are equal in the model exactly when they are equal as real numbers.     *)
(***************************************************************************)
EXTENDS Integers, Sequences, FiniteSets, TLC

(***************************************************************************)
(* Exact integer arithmetic on multi-limb numbers                          *)
(***************************************************************************)
BASE == 10000

RECURSIVE NatTrim(_)
NatTrim(a) ==
    IF a = <<>> THEN <<>>
    ELSE IF a[Len(a)] = 0 THEN NatTrim(SubSeq(a, 1, Len(a) - 1))
    ELSE a

RECURSIVE NatOfInt(_)
NatOfInt(n) ==
    IF n = 0 THEN <<>> ELSE <<n % BASE>> \o NatOfInt(n \div BASE)

RECURSIVE NatToInt(_)
NatToInt(a) ==
    IF a = <<>> THEN 0 ELSE Head(a) + BASE * NatToInt(Tail(a))

RECURSIVE NatAddC(_, _, _)
NatAddC(a, b, c) ==
    IF a = <<>> /\ b = <<>> THEN (IF c = 0 THEN <<>> ELSE <<c>>)
    ELSE LET x == IF a = <<>> THEN 0 ELSE Head(a)
             y == IF b = <<>> THEN 0 ELSE Head(b)
             s == x + y + c
         IN  <<s % BASE>> \o NatAddC(IF a = <<>> THEN a ELSE Tail(a),
                                     IF b = <<>> THEN b ELSE Tail(b),
                                     s \div BASE)

NatAdd(a, b) == NatAddC(a, b, 0)

\* a - b for a >= b
RECURSIVE NatSubB(_, _, _)
NatSubB(a, b, c) ==
    IF a = <<>> THEN <<>>
    ELSE LET y == IF b = <<>> THEN 0 ELSE Head(b)
             s == Head(a) - y - c
         IN  <<IF s < 0 THEN s + BASE ELSE s>>
                 \o NatSubB(Tail(a), IF b = <<>> THEN b ELSE Tail(b),
                            IF s < 0 THEN 1 ELSE 0)

NatSub(a, b) == NatTrim(NatSubB(a, b, 0))

\* -1, 0, 1 comparing the limbs from position i down
RECURSIVE NatCmpFrom(_, _, _)
NatCmpFrom(a, b, i) ==
    IF i = 0 THEN 0
    ELSE IF a[i] < b[i] THEN -1
    ELSE IF a[i] > b[i] THEN 1
    ELSE NatCmpFrom(a, b, i - 1)

NatCmp(a, b) ==
    IF Len(a) < Len(b) THEN -1
    ELSE IF Len(a) > Len(b) THEN 1
    ELSE NatCmpFrom(a, b, Len(a))

\* a * k + c for a limb k
RECURSIVE NatMulLimb(_, _, _)
NatMulLimb(a, k, c) ==
    IF a = <<>> THEN (IF c = 0 THEN <<>> ELSE <<c>>)
    ELSE LET s == Head(a) * k + c
         IN  <<s % BASE>> \o NatMulLimb(Tail(a), k, s \div BASE)

NatShift(a) == IF a = <<>> THEN <<>> ELSE <<0>> \o a

RECURSIVE NatMul(_, _)
NatMul(a, b) ==
    IF a = <<>> \/ b = <<>> THEN <<>>
    ELSE NatAdd(NatTrim(NatMulLimb(a, Head(b), 0)), NatShift(NatMul(a, Tail(b))))

\* floor(a / k) for 0 < k < BASE: limbs i..1 with remainder r carried in
RECURSIVE NatDivFrom(_, _, _, _)
NatDivFrom(a, k, i, r) ==
    IF i = 0 THEN <<>>
    ELSE LET s == r * BASE + a[i]
         IN  NatDivFrom(a, k, i - 1, s % k) \o <<s \div k>>

NatDivLimb(a, k) == NatTrim(NatDivFrom(a, k, Len(a), 0))

\* floor(a / (fs[1] * ... * fs[n])) and the product of a sequence of limbs
RECURSIVE NatDivAll(_, _)
NatDivAll(a, fs) ==
    IF fs = <<>> THEN a ELSE NatDivAll(NatDivLimb(a, Head(fs)), Tail(fs))

RECURSIVE NatProduct(_)
NatProduct(fs) ==
    IF fs = <<>> THEN <<1>> ELSE NatMul(NatOfInt(Head(fs)), NatProduct(Tail(fs)))

\* signed numbers
Num(n) == [neg |-> n < 0, mag |-> NatOfInt(IF n < 0 THEN -n ELSE n)]

ToInt(x) == IF x.neg THEN -NatToInt(x.mag) ELSE NatToInt(x.mag)

Neg(x) == [neg |-> (~x.neg) /\ x.mag # <<>>, mag |-> x.mag]

Add(x, y) ==
    IF x.neg = y.neg THEN [neg |-> x.neg, mag |-> NatAdd(x.mag, y.mag)]
    ELSE LET c == NatCmp(x.mag, y.mag)
         IN  IF c = 0 THEN [neg |-> FALSE, mag |-> <<>>]
             ELSE IF c > 0 THEN [neg |-> x.neg, mag |-> NatSub(x.mag, y.mag)]
             ELSE [neg |-> y.neg, mag |-> NatSub(y.mag, x.mag)]

Mul(x, y) ==
    LET m == NatMul(x.mag, y.mag)
    IN  [neg |-> (x.neg # y.neg) /\ m # <<>>, mag |-> m]

\* -1, 0, 1
Cmp(x, y) ==
    IF x.neg /\ ~y.neg THEN -1
    ELSE IF ~x.neg /\ y.neg THEN 1
    ELSE IF x.neg THEN NatCmp(y.mag, x.mag)
    ELSE NatCmp(x.mag, y.mag)

Greater(x, y) == Cmp(x, y) > 0

LessEq(x, y) == Cmp(x, y) <= 0

(***************************************************************************)
(* round(x, 2) of the value x / (100 * f1 * ... * fn): the nearest         *)
(* hundredth, as an integer count of hundredths.  An exact half goes to    *)
(* the even neighbour, the rule of Python's round on the exact value; on   *)
(* the program's floats an exact half goes wherever the float's error      *)
(* puts it (997 * 0.9 * 0.85 is 762.7050000000001 and rounds to 762.71).   *)
(* Rounding is non-decreasing in both, and no property below rests on the  *)
(* direction of an exact half.                                             *)
(***************************************************************************)
RoundNat(n, fs) ==
    LET d == NatProduct(fs)
        m == NatAdd(NatMulLimb(n, 2, 0), d)
        q == NatDivAll(m, <<2>> \o fs)
        tie == NatMul(NatMulLimb(q, 2, 0), d) = m
    IN  IF tie /\ q # <<>> /\ Head(q) % 2 = 1 THEN NatSub(q, <<1>>) ELSE q

Round2(x, fs) ==
    LET q == RoundNat(x.mag, fs)
    IN  IF x.neg THEN -NatToInt(q) ELSE NatToInt(q)

(***************************************************************************)
(* Catalogs (multipliers in hundredths)                                    *)
(***************************************************************************)
\* GOVERNMENTS.keys() in insertion order
GovNames ==
    << "Anarchy", "Capitalist", "Communist", "Democracy", "Dictatorship",
       "Federal Government", "Monarchy", "Republic",
       "Revolutionary Government", "Totalitarian State", "Transitional" >>

Gov(h, l, s, ic, iu, mu, sa) ==
    [happiness |-> h, land |-> l, soldier_eff |-> s, infra_cost |-> ic,
     imp_upkeep |-> iu, mil_upkeep |-> mu, spy_attack |-> sa]

GOVERNMENTS ==
    ("Anarchy"                  :> Gov(0, 100, 100, 100, 100, 100, 100)) @@
    ("Capitalist"               :> Gov(0, 105, 100,  95,  95, 100, 100)) @@
    ("Communist"                :> Gov(0, 105, 108, 100, 100,  98, 110)) @@
    ("Democracy"                :> Gov(1, 100, 108, 100, 100, 100, 100)) @@
    ("Dictatorship"             :> Gov(0, 100, 108,  95, 100,  98, 100)) @@
    ("Federal Government"       :> Gov(0, 100, 108,  95,  95, 100, 100)) @@
    ("Monarchy"                 :> Gov(1, 105, 100,  95, 100, 100, 100)) @@
    ("Republic"                 :> Gov(0, 105, 100,  95, 100, 100, 110)) @@
    ("Revolutionary Government" :> Gov(1, 100, 100,  95,  95, 100, 100)) @@
    ("Totalitarian State"       :> Gov(1, 105, 100, 100, 100,  98, 100)) @@
    ("Transitional"             :> Gov(0, 105, 108, 100,  95, 100, 110))

DEFCON_HAPPINESS == (5 :> 2) @@ (4 :> 1) @@ (3 :> 0) @@ (2 :> -1) @@ (1 :> -2)

\* DEFCON_HAPPINESS.keys() in insertion order
DefconLevels == <<5, 4, 3, 2, 1>>

\* faulty variant (C2): both entries True
WAR_MODES_BothTrue == <<TRUE, TRUE>>

WAR_MODES == <<TRUE, FALSE>>

FIXED_TAX_RATE == 30

(***************************************************************************)
(* Units                                                                   *)
(***************************************************************************)
TechDen == 2
WeightDen == 10
BonusDen == 100

\* PopDen = BonusDen * 10 * 200, LandDen = 2000 * 100000 * 100,
\* ScoreDen = WeightDen * LandDen; each below is the denominator over 100,
\* as a sequence of factors
PopDenBy100 == <<BonusDen \div 100, 10, 200>>
LandDenBy100 == <<2000, 1000, 100>>
ScoreDenBy100 == <<WeightDen>> \o LandDenBy100

\* LandDen / PopDen
PopToLand == (100000 * 100) \div BonusDen

\* the number n in units of 1/ScoreDen
ScoreUnits(n) ==
    Mul(Num(n), [neg |-> FALSE, mag |-> NatProduct(<<100>> \o ScoreDenBy100)])

Min(a, b) == IF a <= b THEN a ELSE b

(***************************************************************************)
(* tech_happiness_bonus: tech in 1/TechDen, result in 1/BonusDen           *)
(***************************************************************************)
\* faulty variant (C5): the bonus above 15 is not capped
top_tier_bonus_uncapped(tech) ==
    5 * BonusDen + (tech * 2 * BonusDen) \div (100 * TechDen)

\* faulty variant (C6): the bonus above 15 lacks the base of 5
top_tier_bonus_no_base(tech) ==
    LET bonus == (tech * 2 * BonusDen) \div (100 * TechDen)
        max_bonus == 5 * BonusDen + (200 * 2 * BonusDen) \div 100
    IN  Min(bonus, max_bonus)

\* the else branch: min(5 + tech * 0.02, 5 + 200 * 0.02)
top_tier_bonus(tech) ==
    LET bonus == 5 * BonusDen + (tech * 2 * BonusDen) \div (100 * TechDen)
        max_bonus == 5 * BonusDen + (200 * 2 * BonusDen) \div 100
    IN  Min(bonus, max_bonus)

tech_happiness_bonus(tech) ==
    IF tech <= 0 THEN -1 * BonusDen
    ELSE IF 2 * tech <= TechDen THEN 0
    ELSE IF tech <= 1 * TechDen THEN 1 * BonusDen
    ELSE IF tech <= 3 * TechDen THEN 2 * BonusDen
    ELSE IF tech <= 6 * TechDen THEN 3 * BonusDen
    ELSE IF tech <= 10 * TechDen THEN 4 * BonusDen
    ELSE IF tech <= 15 * TechDen THEN 5 * BonusDen
    ELSE top_tier_bonus(tech)

(***************************************************************************)
(* calculate_population: result in 1/PopDen                                *)
(***************************************************************************)
\* base_pop + infra*100 + tech*10, in 1/BonusDen
base_population(infra, tech, base_pop) ==
    Add(Add(Num(base_pop * BonusDen), Mul(Num(infra), Num(100 * BonusDen))),
        Num((tech * 10 * BonusDen) \div TechDen))

\* gov_hap + defcon_hap + tech_hap, in 1/BonusDen
total_hap_adj(government, defcon, tech) ==
    LET gov_hap == GOVERNMENTS[government].happiness
        defcon_hap == DEFCON_HAPPINESS[defcon]
        tech_hap == tech_happiness_bonus(tech)
    IN  gov_hap * BonusDen + defcon_hap * BonusDen + tech_hap

\* faulty variant (C8): the happiness term is subtracted
adjusted_population_minus(government, defcon, infra, tech, base_pop, happiness_factor) ==
    Add(base_population(infra, tech, base_pop),
        Neg(Mul(Num(total_hap_adj(government, defcon, tech)), Num(happiness_factor))))

\* base_population + total_hap_adj * happiness_factor, in 1/BonusDen
adjusted_population(government, defcon, infra, tech, base_pop, happiness_factor) ==
    Add(base_population(infra, tech, base_pop),
        Mul(Num(total_hap_adj(government, defcon, tech)), Num(happiness_factor)))

\* faulty variant (C7): the two multipliers swapped
war_multiplier_swapped(war_mode) == IF war_mode THEN 10 ELSE 9

\* 0.9 if war_mode else 1.0, in tenths
war_multiplier(war_mode) == IF war_mode THEN 9 ELSE 10

\* faulty variant (C4): 1 - FIXED_TAX_RATE / 100
tax_multiplier_per_100 == 200 - 2 * FIXED_TAX_RATE

\* 1 - FIXED_TAX_RATE / 200, in two-hundredths
tax_multiplier == 200 - FIXED_TAX_RATE

calculate_population(government, defcon, war_mode, infra, tech, base_pop, happiness_factor) ==
    Mul(Mul(adjusted_population(government, defcon, infra, tech, base_pop,
                                happiness_factor),
            Num(war_multiplier(war_mode))),
        Num(tax_multiplier))

(***************************************************************************)
(* calculate_land_growth: result in 1/LandDen                              *)
(***************************************************************************)
\* faulty variant (C9): a growth rate of 0.5 whatever the land
natural_growth_flat(base_land) == 1000

\* 0.5 * (base_land / 1000), in 1/2000
natural_growth(base_land) == base_land

\* 1 + infra / 100000, in 1/100000
infra_bonus(infra) == 100000 + infra

calculate_land_growth(government, infra, base_land) ==
    LET gov_land_bonus == GOVERNMENTS[government].land
    IN  Mul(Mul(Mul(Num(base_land), Num(natural_growth(base_land))),
                Num(infra_bonus(infra))),
            Num(gov_land_bonus))

(***************************************************************************)
(* fitness_function: weights in 1/WeightDen, result in 1/ScoreDen          *)
(***************************************************************************)
fitness_function(pop, land, weight_pop, weight_land) ==
    Add(Mul(Mul(Num(weight_pop), pop), Num(PopToLand)),
        Mul(Num(weight_land), land))

(***************************************************************************)
(* State                                                                   *)
(*   pc           "idle" (nothing has run), "loop" (optimize_settings is   *)
(*                in its for loop), "done" (optimize_settings returned),   *)
(*                "called" (a direct call of a pure function returned)     *)
(*   input        the arguments of the running optimize_settings call      *)
(*   i            number of combinations of the product consumed so far    *)
(*   best_score, best_config, results   the locals of optimize_settings;   *)
(*                at "done", best_config and results are what it returned  *)
(*   scores       history of the local score, one entry per iteration      *)
(*   call         the last direct call of one of the pure functions, with  *)
(*                its arguments and its return value                       *)
(***************************************************************************)
VARIABLES pc, input, i, best_score, best_config, results, scores, call

vars == <<pc, input, i, best_score, best_config, results, scores, call>>

\* Python's None
None == [none |-> TRUE]

NoCall == [fn |-> "none"]

\* default of calculate_population's base_pop, which optimize_settings uses
DefaultBasePop == 1000

(***************************************************************************)
(* Bounds of the explored inputs                                           *)
(***************************************************************************)
\* tech_happiness_bonus is called with tech in -NegTech..MaxTech (in
\* 1/TechDen), and with tech = 1000
NegTech == 4
MaxTech == 420
\* calculate_land_growth is called with base_land in 0..MaxLand, and 1000
MaxLand == 12
\* calculate_population is called with happiness_factor in 0..MaxFactor, and 100
MaxFactor == 3
\* optimize_settings is called with base_land in 0..MaxOptLand, and 1000
MaxOptLand == 1

TechCallValues == (-NegTech .. MaxTech) \cup {1000 * TechDen}

PopInfra == {0, 3000}
PopTech == {-2, 0, 1, 2, 31, 400, 3000}
PopBasePop == {0, DefaultBasePop}
PopFactor == (0 .. MaxFactor) \cup {100}

LandInfra == {0, 1, 3000, 100000}
LandValues == (0 .. MaxLand) \cup {1000}

OptInputs ==
    [infra : {0, 3000},
     tech : {0, 1500 * TechDen},
     base_land : (0 .. MaxOptLand) \cup {1000},
     weight_pop : {-WeightDen, 0, 1, WeightDen},
     weight_land : {0, WeightDen, 2 * WeightDen},
     happiness_factor : {1, 100, 1000}]

\* what the Streamlit inputs can supply: number inputs with min_value 0
\* (happiness factor: 1), sliders from 0.0 to 2.0
UIInput(inp) ==
    /\ inp.infra >= 0 /\ inp.tech >= 0 /\ inp.base_land >= 0
    /\ inp.weight_pop \in 0 .. 2 * WeightDen
    /\ inp.weight_land \in 0 .. 2 * WeightDen
    /\ inp.happiness_factor >= 1

(***************************************************************************)
(* optimize_settings                                                       *)
(***************************************************************************)
NumCombos == Len(GovNames) * Len(DefconLevels) * Len(WAR_MODES)

\* the k-th element of itertools.product(GOVERNMENTS.keys(),
\* DEFCON_HAPPINESS.keys(), WAR_MODES): the last factor varies fastest
Combo(k) ==
    [gov |-> GovNames[(k - 1) \div (Len(DefconLevels) * Len(WAR_MODES)) + 1],
     d   |-> DefconLevels[(((k - 1) \div Len(WAR_MODES)) % Len(DefconLevels)) + 1],
     w   |-> WAR_MODES[((k - 1) % Len(WAR_MODES)) + 1]]

\* faulty variant (C10): best_score = 0
InitialBestScore_Zero == ScoreUnits(0)

\* best_score = -1
InitialBestScore == ScoreUnits(-1)

\* faulty variant (C3): score >= best_score
IsBetter_OrEqual(score, best) == Cmp(score, best) >= 0

\* score > best_score
IsBetter(score, best) == Greater(score, best)

Init ==
    /\ pc = "idle"
    /\ input = None
    /\ i = 0
    /\ best_score = InitialBestScore
    /\ best_config = None
    /\ results = <<>>
    /\ scores = <<>>
    /\ call = NoCall

Optimize(inp) ==
    /\ pc = "idle"
    /\ pc' = "loop"
    /\ input' = inp
    /\ i' = 0
    /\ best_score' = InitialBestScore
    /\ best_config' = None
    /\ results' = <<>>
    /\ scores' = <<>>
    /\ call' = NoCall

Iterate ==
    /\ pc = "loop"
    /\ i < NumCombos
    /\ LET c == Combo(i + 1)
           pop == calculate_population(c.gov, c.d, c.w, input.infra, input.tech,
                                       DefaultBasePop, input.happiness_factor)
           land == calculate_land_growth(c.gov, input.infra, input.base_land)
           score == fitness_function(pop, land, input.weight_pop,
                                     input.weight_land)
           rec == [Government |-> c.gov,
                   DEFCON     |-> c.d,
                   War_Mode   |-> c.w,
                   Tax_Rate   |-> FIXED_TAX_RATE,
                   Population |-> Round2(pop, PopDenBy100),
                   Land       |-> Round2(land, LandDenBy100),
                   Fitness    |-> Round2(score, ScoreDenBy100)]
       IN  /\ results' = Append(results, rec)
           /\ scores' = Append(scores, score)
           /\ IF IsBetter(score, best_score)
              THEN best_score' = score /\ best_config' = rec
              ELSE UNCHANGED <<best_score, best_config>>
    /\ i' = i + 1
    /\ UNCHANGED <<pc, input, call>>

Return ==
    /\ pc = "loop"
    /\ i = NumCombos
    /\ pc' = "done"
    /\ UNCHANGED <<input, i, best_score, best_config, results, scores, call>>

(***************************************************************************)
(* Direct calls of the pure functions                                      *)
(***************************************************************************)
TechBonusCall(tech) ==
    /\ pc = "idle"
    /\ call' = [fn |-> "tech_happiness_bonus", tech |-> tech,
                ret |-> tech_happiness_bonus(tech)]
    /\ pc' = "called"
    /\ UNCHANGED <<input, i, best_score, best_config, results, scores>>

PopulationCall(government, defcon, war_mode, infra, tech, base_pop, happiness_factor) ==
    /\ pc = "idle"
    /\ call' = [fn |-> "calculate_population", government |-> government,
                defcon |-> defcon, war_mode |-> war_mode, infra |-> infra,
                tech |-> tech, base_pop |-> base_pop,
                happiness_factor |-> happiness_factor,
                ret |-> calculate_population(government, defcon, war_mode,
                                             infra, tech, base_pop,
                                             happiness_factor)]
    /\ pc' = "called"
    /\ UNCHANGED <<input, i, best_score, best_config, results, scores>>

LandCall(government, infra, base_land) ==
    /\ pc = "idle"
    /\ call' = [fn |-> "calculate_land_growth", government |-> government,
                infra |-> infra, base_land |-> base_land,
                ret |-> calculate_land_growth(government, infra, base_land)]
    /\ pc' = "called"
    /\ UNCHANGED <<input, i, best_score, best_config, results, scores>>

Range(s) == {s[k] : k \in 1 .. Len(s)}

\* the calls start from "idle"; the guard stands before the quantifiers so
\* that it is evaluated once per state
Next ==
    \/ pc = "idle" /\ \E inp \in OptInputs : Optimize(inp)
    \/ Iterate
    \/ Return
    \/ pc = "idle" /\ \E tech \in TechCallValues : TechBonusCall(tech)
    \/ pc = "idle" /\
          \E government \in Range(GovNames), defcon \in Range(DefconLevels),
             war_mode \in BOOLEAN, infra \in PopInfra, tech \in PopTech,
             base_pop \in PopBasePop, happiness_factor \in PopFactor :
               PopulationCall(government, defcon, war_mode, infra, tech,
                              base_pop, happiness_factor)
    \/ pc = "idle" /\
          \E government \in Range(GovNames), infra \in LandInfra,
             base_land \in LandValues : LandCall(government, infra, base_land)

Spec == Init /\ [][Next]_vars

(***************************************************************************)
(* Notions the properties below are stated with                            *)
(***************************************************************************)
Running == pc \in {"loop", "done"}

CalledTech == pc = "called" /\ call.fn = "tech_happiness_bonus"
CalledPopulation == pc = "called" /\ call.fn = "calculate_population"
CalledLand == pc = "called" /\ call.fn = "calculate_land_growth"

Zero == Num(0)

\* m is the greatest of x and the entries of the sequence s of numbers
IsMaxWith(m, x, s) ==
    /\ LessEq(x, m)
    /\ \A k \in 1 .. Len(s) : LessEq(s[k], m)
    /\ m = x \/ \E k \in 1 .. Len(s) : m = s[k]

\* the positions of the records with the greatest (rounded) Fitness, and of
\* the configurations with the greatest unrounded score
MaxFitnessAt ==
    {k \in 1 .. Len(results) :
        \A j \in 1 .. Len(results) : results[j].Fitness <= results[k].Fitness}

MaxScoreAt ==
    {k \in 1 .. Len(scores) :
        \A j \in 1 .. Len(scores) : LessEq(scores[j], scores[k])}

Least(S) == CHOOSE k \in S : \A j \in S : k <= j

\* calculate_population of the last direct call, with another war mode or
\* another happiness factor
CallPopulationWith(war_mode, happiness_factor) ==
    calculate_population(call.government, call.defcon, war_mode, call.infra,
                         call.tech, call.base_pop, happiness_factor)

\* (base_pop + infra*100 + tech*10 + (gov + defcon + tech bonus) * factor)
\*   * (0.9 if war else 1.0) * (1 - tax_rate/200), in 1/PopDen
PopulationFormula(government, defcon, war_mode, infra, tech, base_pop, happiness_factor, tax_rate) ==
    LET happiness == (GOVERNMENTS[government].happiness
                        + DEFCON_HAPPINESS[defcon]) * BonusDen
                     + tech_happiness_bonus(tech)
        sum == Add(Add(Add(Num(base_pop * BonusDen),
                           Mul(Num(infra), Num(100 * BonusDen))),
                       Num((tech * 10 * BonusDen) \div TechDen)),
                   Mul(Num(happiness), Num(happiness_factor)))
    IN  Mul(Mul(sum, Num(IF war_mode THEN 9 ELSE 10)), Num(200 - tax_rate))

\* the tier table of the technology bonus, in 1/BonusDen, for tech in 1/TechDen
TierTable(tech) ==
    CASE tech <= 0                                       -> -1 * BonusDen
      [] 0 < tech /\ 2 * tech <= TechDen                 -> 0
      [] TechDen < 2 * tech /\ tech <= TechDen           -> 1 * BonusDen
      [] TechDen < tech /\ tech <= 3 * TechDen           -> 2 * BonusDen
      [] 3 * TechDen < tech /\ tech <= 6 * TechDen       -> 3 * BonusDen
      [] 6 * TechDen < tech /\ tech <= 10 * TechDen      -> 4 * BonusDen
      [] 10 * TechDen < tech /\ tech <= 15 * TechDen     -> 5 * BonusDen
      [] 15 * TechDen < tech /\ tech <= 200 * TechDen    ->
             5 * BonusDen + (2 * tech * BonusDen) \div (100 * TechDen)
      [] 200 * TechDen < tech                            -> 9 * BonusDen

(***************************************************************************)
(* C1.  optimize_settings returns a best record whose Fitness is the       *)
(* maximum Fitness over the records of the returned collection: a best     *)
(* record is returned, it is one of the records, and no record has a       *)
(* strictly greater Fitness.                                               *)
(* Fails: with every score at most -1 (weight_pop = -1) no configuration   *)
(* beats the initial best_score of -1 and None is returned.                *)
(***************************************************************************)
C1_BestHasMaximumFitness ==
    pc = "done" =>
        /\ best_config # None
        /\ \E k \in 1 .. Len(results) : results[k] = best_config
        /\ \A k \in 1 .. Len(results) : results[k].Fitness <= best_config.Fitness

(***************************************************************************)
(* C2.  optimize_settings runs its loop at most 110 times, appending one   *)
(* record per iteration, and returns exactly 110 records: every            *)
(* (government, DEFCON, war mode) combination of the catalogs is in        *)
(* exactly one record, and every record has Tax_Rate 30.                   *)
(***************************************************************************)
C2_ResultsAreTheProduct ==
    /\ Running => i <= 110 /\ Len(results) = i
    /\ pc = "done" =>
        /\ Len(results) = 110
        /\ {<<results[k].Government, results[k].DEFCON, results[k].War_Mode>> :
                k \in 1 .. Len(results)}
             = Range(GovNames) \X {1, 2, 3, 4, 5} \X BOOLEAN
        /\ Cardinality(Range(GovNames) \X {1, 2, 3, 4, 5} \X BOOLEAN) = 110
        /\ \A k \in 1 .. Len(results) : results[k].Tax_Rate = 30

C2_Witness ==
    /\ pc = "done"
    /\ results[1].Government = "Anarchy" /\ results[1].DEFCON = 5
    /\ results[1].War_Mode = TRUE
    /\ results[110].Government = "Transitional" /\ results[110].DEFCON = 1
    /\ results[110].War_Mode = FALSE

(***************************************************************************)
(* C3 as claimed.  The best record returned is the earliest record, in     *)
(* enumeration order, among the records of the returned collection that    *)
(* have the maximum Fitness.                                               *)
(* Fails: Fitness is rounded to two decimals, the comparison is on the     *)
(* unrounded score; an earlier record with a smaller score can show the    *)
(* same Fitness.                                                           *)
(***************************************************************************)
C3_FirstWithMaximumFitness ==
    pc = "done" /\ best_config # None =>
        best_config = results[Least(MaxFitnessAt)]

(***************************************************************************)
(* C3 as amended.  The best record returned is the record of the earliest  *)
(* configuration, in enumeration order (government outermost, then DEFCON  *)
(* 5,4,3,2,1, then war mode True before False), among the configurations   *)
(* whose unrounded score is the maximum unrounded score.                   *)
(***************************************************************************)
C3_FirstWithMaximumScore ==
    pc = "done" /\ best_config # None =>
        /\ best_config = results[Least(MaxScoreAt)]
        /\ \A k \in 1 .. Len(results) :
              /\ results[k].Government = Combo(k).gov
              /\ results[k].DEFCON = Combo(k).d
              /\ results[k].War_Mode = Combo(k).w
        /\ Combo(1) = [gov |-> "Anarchy", d |-> 5, w |-> TRUE]
        /\ Combo(2) = [gov |-> "Anarchy", d |-> 5, w |-> FALSE]
        /\ Combo(3) = [gov |-> "Anarchy", d |-> 4, w |-> TRUE]
        /\ Combo(11) = [gov |-> "Capitalist", d |-> 5, w |-> TRUE]

\* a tie on the maximum unrounded score, won by the first of the tied
\* configurations, which is not the first record with the maximum Fitness
C3_Witness ==
    /\ pc = "done"
    /\ best_config # None
    /\ Cardinality(MaxScoreAt) > 1
    /\ best_config = results[Least(MaxScoreAt)]
    /\ Least(MaxFitnessAt) < Least(MaxScoreAt)

(***************************************************************************)
(* C4.  calculate_population returns                                       *)
(*   (base_pop + infra*100 + tech*10                                       *)
(*      + (government happiness + DEFCON happiness + tech bonus) * factor) *)
(*   * (0.9 if war_mode else 1.0) * (1 - tax_rate/200)                     *)
(* with tax_rate = 30, the Tax_Rate of the evaluation records: each record *)
(* of optimize_settings holds that value, for base_pop = 1000 and the      *)
(* record's own Tax_Rate, rounded to two decimals.                         *)
(***************************************************************************)
C4_PopulationFormula ==
    /\ CalledPopulation =>
          call.ret = PopulationFormula(call.government, call.defcon,
                                       call.war_mode, call.infra, call.tech,
                                       call.base_pop, call.happiness_factor, 30)
    /\ Running /\ i > 0 =>
          /\ results[i].Tax_Rate = 30
          /\ results[i].Population =
                Round2(PopulationFormula(results[i].Government,
                                         results[i].DEFCON, results[i].War_Mode,
                                         input.infra, input.tech, 1000,
                                         input.happiness_factor,
                                         results[i].Tax_Rate),
                       <<2000>>)

\* tech = 15.5 (bonus 5.31), at war, happiness factor 100
C4_Witness ==
    /\ CalledPopulation
    /\ call.war_mode /\ call.tech = 31 /\ call.happiness_factor = 100
    /\ call.government = "Monarchy" /\ call.defcon = 5
    /\ call.infra = 3000 /\ call.base_pop = 1000
    /\ call.ret = Mul(Num((1000 + 300000 + 155) * 100 + 831 * 100), Num(9 * 170))

(***************************************************************************)
(* C5.  tech_happiness_bonus follows the tier table: -1 for tech <= 0,     *)
(* 0 for 0 < tech <= 0.5, 1 for 0.5 < tech <= 1, 2 for 1 < tech <= 3,      *)
(* 3 for 3 < tech <= 6, 4 for 6 < tech <= 10, 5 for 10 < tech <= 15, and   *)
(* min(5 + tech*0.02, 5 + 200*0.02) for tech > 15; every input yields a    *)
(* number.                                                                 *)
(***************************************************************************)
C5_TierTable ==
    CalledTech =>
        /\ call.ret \in Int
        /\ call.ret = TierTable(call.tech)
        /\ call.tech > 15 * TechDen =>
              call.ret = Min(5 * BonusDen + (2 * call.tech * BonusDen) \div (100 * TechDen),
                             5 * BonusDen + 4 * BonusDen)

\* the linear tier: tech = 100 gives 5 + 100*0.02 = 7
C5_Witness ==
    CalledTech /\ call.tech = 100 * TechDen /\ call.ret = 7 * BonusDen

(***************************************************************************)
(* C6.  tech_happiness_bonus is non-decreasing in tech: tech1 <= tech2     *)
(* implies bonus(tech1) <= bonus(tech2), across the boundary at 15         *)
(* (15 -> 5, above 15 -> 5 + tech*0.02), and every tech >= 200 yields the  *)
(* value of tech = 200, which is 5 + 200*0.02.                             *)
(***************************************************************************)
C6_BonusMonotone ==
    CalledTech =>
        /\ \A tech2 \in TechCallValues :
              call.tech <= tech2 => call.ret <= tech_happiness_bonus(tech2)
        /\ call.tech = 15 * TechDen => call.ret = 5 * BonusDen
        /\ call.tech > 15 * TechDen =>
              call.ret >= 5 * BonusDen + (2 * 15 * BonusDen) \div 100
        /\ call.tech >= 200 * TechDen =>
              /\ call.ret = tech_happiness_bonus(200 * TechDen)
              /\ call.ret = 5 * BonusDen + (200 * 2 * BonusDen) \div 100

\* the first tech above 15 has a bonus above that of 15
C6_Witness ==
    /\ CalledTech
    /\ call.tech = 15 * TechDen + 1
    /\ call.ret > tech_happiness_bonus(15 * TechDen)
    /\ call.ret < tech_happiness_bonus(1000 * TechDen)

(***************************************************************************)
(* C7.  Where the adjusted population (base population plus total          *)
(* happiness adjustment times happiness_factor) is positive,               *)
(* calculate_population with war_mode = True is at most                    *)
(* calculate_population with war_mode = False, all else equal.             *)
(***************************************************************************)
C7_WarNeverHelps ==
    CalledPopulation
      /\ Greater(adjusted_population(call.government, call.defcon, call.infra,
                                     call.tech, call.base_pop,
                                     call.happiness_factor), Zero)
      => IF call.war_mode
         THEN LessEq(call.ret, CallPopulationWith(FALSE, call.happiness_factor))
         ELSE LessEq(CallPopulationWith(TRUE, call.happiness_factor), call.ret)

\* at war, with a positive adjusted population: strictly fewer people
C7_Witness ==
    /\ CalledPopulation
    /\ call.war_mode
    /\ Greater(adjusted_population(call.government, call.defcon, call.infra,
                                   call.tech, call.base_pop,
                                   call.happiness_factor), Zero)
    /\ Greater(CallPopulationWith(FALSE, call.happiness_factor), call.ret)

(***************************************************************************)
(* C8.  With all other arguments fixed, calculate_population is            *)
(* non-decreasing in happiness_factor when the total happiness adjustment  *)
(* is > 0, non-increasing when it is < 0, and constant when it is 0.       *)
(***************************************************************************)
C8_MonotoneInFactor ==
    CalledPopulation =>
        LET adj == total_hap_adj(call.government, call.defcon, call.tech)
        IN  \A factor2 \in PopFactor :
              call.happiness_factor <= factor2 =>
                LET c == Cmp(call.ret, CallPopulationWith(call.war_mode, factor2))
                IN  /\ adj > 0 => c <= 0
                    /\ adj < 0 => c >= 0
                    /\ adj = 0 => c = 0

\* a negative total adjustment: a greater factor gives strictly fewer people
C8_Witness ==
    /\ CalledPopulation
    /\ total_hap_adj(call.government, call.defcon, call.tech) < 0
    /\ call.happiness_factor = 1
    /\ Greater(call.ret, CallPopulationWith(call.war_mode, 100))

(***************************************************************************)
(* C9.  For infra >= 0 and base_land >= 0, calculate_land_growth returns   *)
(*   base_land * (0.5 * base_land/1000) * (1 + infra/100000)               *)
(*     * the government's land multiplier,                                 *)
(* quadratic in base_land, and so 0 whenever base_land = 0.                *)
(***************************************************************************)
C9_LandFormula ==
    CalledLand =>
        /\ call.ret = Mul(Mul(Num(call.base_land * call.base_land),
                              Num(100000 + call.infra)),
                          Num(GOVERNMENTS[call.government].land))
        /\ call.base_land = 0 => call.ret = Zero

\* 1000 * 0.5 * 1.03 * 1.05 = 540.75
C9_Witness ==
    /\ CalledLand
    /\ call.base_land = 1000 /\ call.infra = 3000
    /\ call.government = "Monarchy"
    /\ Round2(call.ret, <<2000, 1000, 100>>) = 54075

(***************************************************************************)
(* C10.  After every loop iteration best_score is the maximum of -1 and    *)
(* the unrounded scores evaluated so far; and for every input the          *)
(* Streamlit inputs can supply (infra, tech, base_land >= 0, both weights  *)
(* in [0, 2], happiness_factor >= 1) some score exceeds -1, so the best    *)
(* configuration returned is not None.                                     *)
(***************************************************************************)
C10_BestScoreIsRunningMaximum ==
    /\ Running =>
          /\ Len(scores) = i
          /\ IsMaxWith(best_score, ScoreUnits(-1), scores)
    /\ pc = "done" /\ UIInput(input) =>
          /\ best_config # None
          /\ \E k \in 1 .. Len(scores) : Greater(scores[k], ScoreUnits(-1))

\* both weights 0: every score is 0, the first configuration beats -1
C10_Witness ==
    /\ pc = "done"
    /\ UIInput(input)
    /\ input.weight_pop = 0 /\ input.weight_land = 0
    /\ best_score = Zero
    /\ best_config = results[1]

=============================================================================
